---- MODULE Spec2Model ----
(***************************************************************************)
(* CloudinaryService (keleshteri/cloudinary-nestjs): the calls that reach  *)
(* the remote media service and the two pieces of local logic in front of  *)
(* them, validateImageUrl and getFilenameFromImageUrl.                     *)
(*                                                                         *)
(* One call is in flight at a time (the service keeps no state between     *)
(* calls).  A call runs from its entry to its first await in one step, and *)
(* from the settling of the awaited remote operation to the next await or  *)
(* to its end in one step.  JavaScript strings are sequences of            *)
(* one-character strings; JavaScript values are records [t, v] tagged by   *)
(* their type.                                                             *)
(***************************************************************************)
EXTENDS Integers, Sequences, FiniteSets, TLC

VARIABLES
  pc,        \* "idle", the remote operation awaited, or "done"
  op,        \* the method of CloudinaryService that was called
  arg,       \* its first argument, as passed
  options,   \* the caller's options object, as passed (uploadByUrl)
  heap,      \* the caller's options object, as it is now
  calls,     \* the remote operations invoked by this call, in order
  reply,     \* how the last awaited remote operation settled
  isValid,   \* uploadByUrl: how the awaited validateImageUrl ended
  debugLog,  \* getFilenameFromImageUrl: filename1, filename2, filename3 as logged
  outcome    \* how the call ended

vars == <<pc, op, arg, options, heap, calls, reply, isValid, debugLog, outcome>>

----------------------------------------------------------------------------
(* Bounds of the model *)

\* longest generated URL tail (the part after a fixed prefix)
MaxTail == 4
\* longest publicIds array passed to deleteImages
MaxIds == 3

----------------------------------------------------------------------------
(* JavaScript values *)

Undefined == [t |-> "undefined", v |-> <<>>]
Null == [t |-> "null", v |-> <<>>]
Num(n) == [t |-> "number", v |-> n]
Str(s) == [t |-> "string", v |-> s]
Bool(b) == [t |-> "boolean", v |-> b]
Arr(a) == [t |-> "array", v |-> a]
\* an instance of Error with the given message
Err(m) == [t |-> "Error", v |-> m]
\* a thrown or rejected value that is not an instance of Error
Plain(m) == [t |-> "plain", v |-> m]
\* the TypeError of reading a property of undefined
TypeError == Err("TypeError")

\* the values `!x` holds of
Falsy(x) ==
  \/ x.t \in {"undefined", "null"}
  \/ x.t = "string" /\ x.v = <<>>
  \/ x.t = "boolean" /\ x.v = FALSE
  \/ x.t = "number" /\ x.v = 0

Returned(v) == [kind |-> "returned", value |-> v]
Threw(e) == [kind |-> "threw", value |-> e]
Pending == [kind |-> "pending", value |-> Undefined]

----------------------------------------------------------------------------
(* String and array primitives *)

RECURSIVE split(_, _)
\* String.prototype.split with a one-character separator
split(s, sep) ==
  IF \A i \in 1..Len(s) : s[i] # sep
  THEN <<s>>
  ELSE LET i == CHOOSE k \in 1..Len(s) :
                  s[k] = sep /\ \A j \in 1..(k - 1) : s[j] # sep
       IN <<SubSeq(s, 1, i - 1)>> \o split(SubSeq(s, i + 1, Len(s)), sep)

\* variant of pop: Array.prototype.shift, the first element
shift(a) == IF Len(a) = 0 THEN Undefined ELSE Str(a[1])

\* Array.prototype.pop: the last element, undefined (here: absent) for []
pop(a) == IF Len(a) = 0 THEN Undefined ELSE Str(a[Len(a)])

RECURSIVE join(_, _)
\* Array.prototype.join
join(a, sep) ==
  IF Len(a) = 0 THEN <<>>
  ELSE IF Len(a) = 1 THEN a[1]
  ELSE a[1] \o <<sep>> \o join(Tail(a), sep)

\* Array.prototype.slice(0, -1)
sliceAllButLast(a) == SubSeq(a, 1, Len(a) - 1)

\* String.prototype.includes with a one-character needle
includes(s, c) == \E i \in 1..Len(s) : s[i] = c

\* String.prototype.startsWith
startsWith(s, p) == Len(s) >= Len(p) /\ SubSeq(s, 1, Len(p)) = p

WhiteSpace == {" ", "\t", "\n"}

RECURSIVE trim(_)
\* String.prototype.trim
trim(s) ==
  IF Len(s) = 0 THEN s
  ELSE IF s[1] \in WhiteSpace THEN trim(Tail(s))
  ELSE IF s[Len(s)] \in WhiteSpace THEN trim(SubSeq(s, 1, Len(s) - 1))
  ELSE s

----------------------------------------------------------------------------
(* getFilenameFromImageUrl *)

\* url.split('/').pop()?.split('?')[0] || ''
filename1(url) ==
  LET last == pop(split(url, "/"))
      head == IF last.t = "undefined" THEN Undefined
              ELSE Str(split(last.v, "?")[1])
  IN IF Falsy(head) THEN <<>> ELSE head.v

\* variant of filename2: the piece before the first dot, however many dots
filename2FirstPiece(filename) ==
  IF includes(filename, ".") THEN split(filename, ".")[1] ELSE filename

\* if (filename.includes('.')) { ... }
filename2(filename) ==
  IF includes(filename, ".")
  THEN LET temp == split(filename, ".")
       IN IF Len(temp) > 2
          THEN join(sliceAllButLast(temp), "-")
          ELSE temp[1]
  ELSE filename

\* variant of filename3: the regular expression without its g flag, which
\* removes the first run of the characters only
filename3FirstRun(filename) ==
  LET bad(i) == filename[i] \in {"?", "#", "%", "<", ">"}
      hits == {i \in 1..Len(filename) : bad(i)}
  IN IF hits = {} THEN filename
     ELSE LET b == CHOOSE i \in hits : \A j \in hits : i <= j
              e == CHOOSE i \in b..Len(filename) :
                     /\ \A j \in b..i : bad(j)
                     /\ i = Len(filename) \/ ~bad(i + 1)
          IN SubSeq(filename, 1, b - 1) \o SubSeq(filename, e + 1, Len(filename))

\* filename.replace(/[?#%<>]+/g, '')
filename3(filename) ==
  SelectSeq(filename, LAMBDA c : c \notin {"?", "#", "%", "<", ">"})

getFilenameFromImageUrl(url) == filename3(filename2(filename1(url)))

\* the three values the method logs
filenameLog(url) ==
  <<filename1(url), filename2(filename1(url)), getFilenameFromImageUrl(url)>>

----------------------------------------------------------------------------
(* validateImageUrl *)

\* const urlRegex = /^https?:\/\/[^ ]+\.[^ ]+$/; urlRegex.test(url)
urlRegexTest(url) ==
  \E n \in {4, 5} :
    /\ Len(url) >= n + 3
    /\ SubSeq(url, 1, 4) = <<"h", "t", "t", "p">>
    /\ n = 5 => url[5] = "s"
    /\ SubSeq(url, n + 1, n + 3) = <<":", "/", "/">>
    /\ \E d \in (n + 5)..(Len(url) - 1) :
         /\ url[d] = "."
         /\ \A i \in (n + 4)..(d - 1) : url[i] # " "
         /\ \A i \in (d + 1)..Len(url) : url[i] # " "

\* the checks before the probe: FALSE when the method returns false there
passesLocalChecks(url) ==
  /\ ~(Falsy(Str(url)) \/ trim(url) = <<>>)
  /\ urlRegexTest(url)

\* contentType.startsWith('image/'), contentType = response.headers['content-type']
contentTypeCheck(contentType) ==
  IF contentType.t # "string"
  THEN Threw(TypeError)
  ELSE Returned(Bool(startsWith(contentType.v, <<"i", "m", "a", "g", "e", "/">>)))

\* from the settling of axios.head(url) to the end of the method
validateAfterProbe(r) ==
  IF r.settled = "rejected"
  THEN Returned(Bool(FALSE))
  ELSE contentTypeCheck(r.result.v.content_type)

----------------------------------------------------------------------------
(* uploadByUrl *)

NoFields == [public_id |-> Undefined, folder |-> Undefined]
Obj(fields) == [t |-> "object", v |-> fields]

\* { ...options }: the own fields of options, none for undefined
spread(opts) == IF opts.t = "object" THEN opts.v ELSE NoFields

\* variant of foldPublicId: { public_id: filename, ...options }, where a
\* public_id of the caller wins
foldPublicIdCallerWins(opts, filename) ==
  IF ~Falsy(Str(filename))
  THEN [caller |-> opts,
        forwarded |->
          Obj([spread(opts) EXCEPT
                 !.public_id = IF spread(opts).public_id = Undefined
                               THEN Str(filename) ELSE @])]
  ELSE [caller |-> opts, forwarded |-> opts]

\* if (filename) { options = { ...options, public_id: filename }; }
\* caller: the caller's object afterwards; forwarded: what the upload is given
foldPublicId(opts, filename) ==
  IF ~Falsy(Str(filename))
  THEN [caller |-> opts,
        forwarded |-> Obj([spread(opts) EXCEPT !.public_id = Str(filename)])]
  ELSE [caller |-> opts, forwarded |-> opts]

\* variant of invalid: the result of the validator is ignored
invalidNever(valid) == FALSE

\* if (!isValid)
invalid(valid) == Falsy(valid.value)

\* the upload callback: reject(error) when error is truthy, resolve(result) otherwise
uploadCallback(error, result) ==
  IF ~Falsy(error) THEN Threw(error) ELSE Returned(result)

----------------------------------------------------------------------------
(* deleteImage, deleteImages *)

\* the catch blocks: an Error is thrown again, anything else is logged and the
\* method falls off its end
catchBlock(error) ==
  IF error.t = "Error" THEN Threw(error) ELSE Returned(Undefined)

\* result && result.result === 'ok'
destroyResult(result) ==
  Returned(Bool(~Falsy(result) /\ result.v.result = "ok"))

\* !publicIds || publicIds.length === 0
noPublicIds(publicIds) == Falsy(publicIds) \/ Len(publicIds.v) = 0

\* variant of someInvalidPublicId: only the first identifier is looked at
firstInvalidPublicId(publicIds) == Falsy(Str(publicIds.v[1]))

\* publicIds.some((id) => !id)
someInvalidPublicId(publicIds) ==
  \E i \in 1..Len(publicIds.v) : Falsy(Str(publicIds.v[i]))

Summary(deleted, failed) ==
  [t |-> "summary", v |-> [deleted |-> deleted, failed |-> failed]]

\* the loop over Object.entries(result.deleted)
partitionEntries(entries) ==
  LET only(P(_)) == SelectSeq(entries, P)
      ids(es) == [i \in 1..Len(es) |-> es[i].id]
  IN Summary(ids(only(LAMBDA e : e.status = "deleted")),
             ids(only(LAMBDA e : e.status # "deleted")))

\* from the resolution of delete_resources(publicIds) to the end of the method
deleteImagesResult(publicIds, result) ==
  IF ~Falsy(result) /\ ~Falsy(result.v.deleted)
  THEN Returned(partitionEntries(result.v.deleted.v))
  ELSE Returned(Summary(<<>>, publicIds.v))

----------------------------------------------------------------------------
(* The inputs of the calls and the ways the remote operations settle *)

Alphabet == {"a", ".", "/", "?", "<", " "}
Tails == UNION {[1..n -> Alphabet] : n \in 0..MaxTail}

Http == <<"h", "t", "t", "p", ":", "/", "/">>
Host == <<"h", "t", "t", "p", "s", ":", "/", "/", "h", ".", "i", "o", "/">>
Prefixes == {<<>>, Http, Host}

PhotoUrl == Host \o <<"p", "h", "o", "t", "o", ".", "j", "p", "g", "?", "x", "=", "1">>
ArchiveUrl == Host \o <<"a", "r", "c", "h", "i", "v", "e", ".", "t", "a", "r", ".", "g", "z">>
NoextUrl == Host \o <<"n", "o", "e", "x", "t">>
AngleUrl == Host \o <<"a", "<", "b", ">", "c", ".", "p", "n", "g">>
HashUrl == Host \o <<"a", "#", "%", ">", "?", "#">>
TabUrl == <<"\t", "\n">>
Examples == {PhotoUrl, ArchiveUrl, NoextUrl, AngleUrl, HashUrl, TabUrl}

Urls == {p \o t : p \in Prefixes, t \in Tails} \cup Examples

\* imageUrl as a caller without type checking may pass it
ImageUrlArgs == {Str(u) : u \in Urls} \cup {Undefined, Null, Num(1)}

CallerOptions ==
  {Undefined} \cup
  {Obj([public_id |-> p, folder |-> f]) :
     p \in {Undefined, Str(<<"m", "e">>)}, f \in {Undefined, Str(<<"f">>)}}

ImagePng == <<"i", "m", "a", "g", "e", "/", "p", "n", "g">>
TextHtml == <<"t", "e", "x", "t", "/", "h", "t", "m", "l">>
ContentTypes ==
  {ImagePng, TextHtml, <<"i", "m", "a", "g", "e">>, <<"I", "M", "A", "G", "E", "/">>,
   <<" ">> \o ImagePng, <<>>}

Resolved(v) == [settled |-> "resolved", error |-> Undefined, result |-> v]
Rejected(e) == [settled |-> "rejected", error |-> e, result |-> Undefined]
Callback(e, v) == [settled |-> "callback", error |-> e, result |-> v]
NoReply == [settled |-> "none", error |-> Undefined, result |-> Undefined]

Response(contentType) == [t |-> "response", v |-> [content_type |-> contentType]]

\* axios.head(url): a failure, or a response with or without a content-type
HeadReplies ==
  {Rejected(Err("ECONNREFUSED"))} \cup {Resolved(Response(Undefined))}
    \cup {Resolved(Response(Str(c))) : c \in ContentTypes}

Asset(id) == [t |-> "asset", v |-> id]

\* uploader.upload(imageUrl, options, callback): what the callback is given
UploadReplies ==
  {Callback(Undefined, Asset("asset-1")), Callback(Null, Asset("asset-2")),
   Callback(Plain("http 400"), Undefined), Callback(Err("timeout"), Undefined)}

DestroyResult(r) == [t |-> "result", v |-> [result |-> r]]

\* uploader.destroy(publicId)
DestroyReplies ==
  {Resolved(DestroyResult("ok")), Resolved(DestroyResult("not found")),
   Resolved(Undefined), Rejected(Err("timeout")), Rejected(Plain("http 500"))}

Ids == {<<"a">>, <<"b">>, <<"c">>}
PublicIdArgs == {Str(i) : i \in Ids} \cup {Str(<<>>), Undefined, Null}

PublicIdsArgs ==
  {Undefined, Null} \cup
  {Arr(a) : a \in UNION {[1..n -> Ids \cup {<<>>}] : n \in 0..MaxIds}}

\* the entries of a `deleted` object: distinct keys, in the order the service gave
DeletedEntries ==
  {e \in UNION {[1..n -> [id : Ids, status : {"deleted", "not_found"}]] :
                  n \in 0..Cardinality(Ids)} :
     \A i, j \in 1..Len(e) : e[i].id = e[j].id => i = j}

DeleteResult(d) == [t |-> "result", v |-> [deleted |-> d]]

\* api.delete_resources(publicIds)
DeleteReplies ==
  {Resolved(DeleteResult([t |-> "object", v |-> e])) : e \in DeletedEntries}
    \cup {Resolved(DeleteResult(Undefined)), Resolved(Undefined),
          Rejected(Err("timeout")), Rejected(Plain("http 500"))}

Call(api, target, opts) == [api |-> api, target |-> target, options |-> opts]

----------------------------------------------------------------------------
(* The calls *)

Init ==
  /\ pc = "idle"
  /\ op = "none"
  /\ arg = Undefined
  /\ options = Undefined
  /\ heap = Undefined
  /\ calls = <<>>
  /\ reply = NoReply
  /\ isValid = Pending
  /\ debugLog = <<>>
  /\ outcome = Pending

\* a call begins
Enter(name, a, o) ==
  /\ op' = name
  /\ arg' = a
  /\ options' = o
  /\ heap' = o

\* the call ends
Finish(result) ==
  /\ pc' = "done"
  /\ outcome' = result
  /\ UNCHANGED calls

\* the call invokes a remote operation and awaits it
Await(call) ==
  /\ pc' = call.api
  /\ calls' = Append(calls, call)
  /\ UNCHANGED outcome

\* the awaited remote operation settles
Settle(r) ==
  /\ reply' = r
  /\ UNCHANGED <<op, arg, options>>

\* getFilenameFromImageUrl(url)
GetFilenameFromImageUrl ==
  /\ pc = "idle"
  /\ \E url \in Urls :
       /\ Enter("getFilenameFromImageUrl", Str(url), Undefined)
       /\ debugLog' = filenameLog(url)
       /\ Finish(Returned(Str(getFilenameFromImageUrl(url))))
       /\ UNCHANGED <<reply, isValid>>

\* validateImageUrl(url), to its return or to the probe
ValidateImageUrl ==
  /\ pc = "idle"
  /\ \E url \in Urls :
       /\ Enter("validateImageUrl", Str(url), Undefined)
       /\ IF passesLocalChecks(url)
          THEN Await(Call("head", Str(url), Undefined))
          ELSE Finish(Returned(Bool(FALSE)))
       /\ UNCHANGED <<reply, isValid, debugLog>>

\* uploadByUrl from the end of `await this.validateImageUrl(imageUrl)`
UploadAfterValidation(imageUrl, valid) ==
  /\ isValid' = valid
  /\ IF valid.kind = "threw"
     THEN Finish(valid) /\ UNCHANGED <<heap, debugLog>>
     ELSE IF invalid(valid)
     THEN Finish(Threw(Err("Invalid image URL"))) /\ UNCHANGED <<heap, debugLog>>
     ELSE LET filename == getFilenameFromImageUrl(imageUrl.v)
              folded == foldPublicId(heap, filename)
          IN /\ debugLog' = filenameLog(imageUrl.v)
             /\ heap' = folded.caller
             /\ Await(Call("upload", imageUrl, folded.forwarded))

\* uploadByUrl(imageUrl, options), to its throw or to the probe of the validator
UploadByUrl ==
  /\ pc = "idle"
  /\ \E imageUrl \in ImageUrlArgs, o \in CallerOptions :
       /\ Enter("uploadByUrl", imageUrl, o)
       /\ IF imageUrl.t # "string"
          THEN /\ Finish(Threw(Err("Invalid parameter: imageUrl must be a string")))
               /\ UNCHANGED isValid
          ELSE IF passesLocalChecks(imageUrl.v)
          THEN Await(Call("head", imageUrl, Undefined)) /\ UNCHANGED isValid
          ELSE /\ isValid' = Returned(Bool(FALSE))
               /\ Finish(Threw(Err("Invalid image URL")))
       /\ UNCHANGED <<reply, debugLog>>

\* axios.head(url) settles: validateImageUrl ends, and uploadByUrl goes on
HeadSettles ==
  /\ pc = "head"
  /\ \E r \in HeadReplies :
       /\ Settle(r)
       /\ IF op = "validateImageUrl"
          THEN Finish(validateAfterProbe(r)) /\ UNCHANGED <<heap, isValid, debugLog>>
          ELSE UploadAfterValidation(arg, validateAfterProbe(r))

\* the upload calls back
UploadSettles ==
  /\ pc = "upload"
  /\ \E r \in UploadReplies :
       /\ Settle(r)
       /\ Finish(uploadCallback(r.error, r.result))
       /\ UNCHANGED <<heap, isValid, debugLog>>

\* deleteImage(publicId), to its throw or to the remote call
DeleteImage ==
  /\ pc = "idle"
  /\ \E publicId \in PublicIdArgs :
       /\ Enter("deleteImage", publicId, Undefined)
       /\ IF Falsy(publicId)
          THEN Finish(Threw(Err("Invalid publicId provided for deletion.")))
          ELSE Await(Call("destroy", publicId, Undefined))
       /\ UNCHANGED <<reply, isValid, debugLog>>

\* uploader.destroy(publicId) settles
DestroySettles ==
  /\ pc = "destroy"
  /\ \E r \in DestroyReplies :
       /\ Settle(r)
       /\ Finish(IF r.settled = "rejected" THEN catchBlock(r.error)
                 ELSE destroyResult(r.result))
       /\ UNCHANGED <<heap, isValid, debugLog>>

\* deleteImages(publicIds), to its throw or to the remote call
DeleteImages ==
  /\ pc = "idle"
  /\ \E publicIds \in PublicIdsArgs :
       /\ Enter("deleteImages", publicIds, Undefined)
       /\ IF noPublicIds(publicIds)
          THEN Finish(Threw(Err("No publicIds provided for deletion.")))
          ELSE IF someInvalidPublicId(publicIds)
          THEN Finish(Threw(Err("One or more invalid publicIds provided for deletion.")))
          ELSE Await(Call("delete_resources", publicIds, Undefined))
       /\ UNCHANGED <<reply, isValid, debugLog>>

\* api.delete_resources(publicIds) settles
DeleteResourcesSettles ==
  /\ pc = "delete_resources"
  /\ \E r \in DeleteReplies :
       /\ Settle(r)
       /\ Finish(IF r.settled = "rejected" THEN catchBlock(r.error)
                 ELSE deleteImagesResult(arg, r.result))
       /\ UNCHANGED <<heap, isValid, debugLog>>

\* the caller has the result; the service keeps nothing of the call
Return ==
  /\ pc = "done"
  /\ pc' = "idle"
  /\ op' = "none"
  /\ arg' = Undefined
  /\ options' = Undefined
  /\ heap' = Undefined
  /\ calls' = <<>>
  /\ reply' = NoReply
  /\ isValid' = Pending
  /\ debugLog' = <<>>
  /\ outcome' = Pending

Next ==
  \/ GetFilenameFromImageUrl
  \/ ValidateImageUrl
  \/ UploadByUrl
  \/ HeadSettles
  \/ UploadSettles
  \/ DeleteImage
  \/ DestroySettles
  \/ DeleteImages
  \/ DeleteResourcesSettles
  \/ Return

Spec == Init /\ [][Next]_vars

----------------------------------------------------------------------------
(* Vocabulary of the properties, stated without the operators of the code *)

Max(S) == CHOOSE x \in S : \A y \in S : y <= x
Min(S) == CHOOSE x \in S : \A y \in S : x <= y
Positions(str, c) == {i \in 1..Len(str) : str[i] = c}
Chars(str) == {str[i] : i \in 1..Len(str)}
Range(a) == {a[i] : i \in 1..Len(a)}

\* the text after the last '/', the whole string when it has none
AfterLastSlash(url) ==
  IF Positions(url, "/") = {} THEN url
  ELSE SubSeq(url, Max(Positions(url, "/")) + 1, Len(url))

\* the last maximal run of characters other than '/', empty when there is none
LastNonEmptySegment(url) ==
  LET plain == {i \in 1..Len(url) : url[i] # "/"}
  IN IF plain = {} THEN <<>>
     ELSE LET e == Max(plain)
              b == Min({i \in 1..e : \A j \in i..e : url[j] # "/"})
          IN SubSeq(url, b, e)

\* the text before the first '?', the whole string when it has none
BeforeQuery(str) ==
  IF Positions(str, "?") = {} THEN str
  ELSE SubSeq(str, 1, Min(Positions(str, "?")) - 1)

EndsWithSlash(url) == Len(url) > 0 /\ url[Len(url)] = "/"

\* scheme://A.B with scheme http or https, A and B non-empty and free of ' '
WellFormed(url) ==
  \E i \in 1..Len(url), d \in 1..Len(url) :
    /\ SubSeq(url, 1, i) \in {Http, <<"h", "t", "t", "p", "s", ":", "/", "/">>}
    /\ i + 1 < d /\ d < Len(url)
    /\ url[d] = "."
    /\ " " \notin Chars(SubSeq(url, i + 1, Len(url)))

Blank(url) == Chars(url) \subseteq WhiteSpace

ImagePrefixed(contentType) ==
  /\ contentType.t = "string"
  /\ Len(contentType.v) >= 6
  /\ \A i \in 1..6 : contentType.v[i] = <<"i", "m", "a", "g", "e", "/">>[i]

Ended(name) == op = name /\ pc = "done"
Uploads == SelectSeq(calls, LAMBDA c : c.api = "upload")
True == Returned(Bool(TRUE))
False == Returned(Bool(FALSE))

----------------------------------------------------------------------------
(* Properties *)

\* C1: validateImageUrl never throws: whatever the url and however the probe
\* settles, the call ends by returning a boolean.
ValidateNeverThrows ==
  Ended("validateImageUrl") =>
    outcome.kind = "returned" /\ outcome.value.t = "boolean"

\* C2: uploadByUrl invokes the upload at most once, and only after the probe of
\* the same URL and after validateImageUrl returned true; with a non-string
\* imageUrl or a validator that returned false the call throws and no upload is
\* invoked; once invoked, the upload's result is returned as it is and its
\* error is thrown as it is.
UploadOnlyAfterValidation ==
  op = "uploadByUrl" =>
    /\ Len(Uploads) <= 1
    /\ Len(Uploads) = 1 =>
         /\ isValid = True
         /\ calls = <<Call("head", arg, Undefined), Uploads[1]>>
         /\ Uploads[1].target = arg
    /\ (pc = "done" /\ (arg.t # "string" \/ isValid = False)) =>
         outcome.kind = "threw" /\ Uploads = <<>>
    /\ (pc = "done" /\ Len(Uploads) = 1) =>
         /\ reply.settled = "callback"
         /\ reply.error \notin {Undefined, Null} => outcome = Threw(reply.error)
         /\ reply.error \in {Undefined, Null} => outcome = Returned(reply.result)

\* C2, its case: an upload was invoked and has called back
UploadOnlyAfterValidationWitness ==
  /\ Ended("uploadByUrl")
  /\ Len(Uploads) = 1
  /\ outcome = Returned(Asset("asset-1"))

\* C3: for a non-empty list of non-empty identifiers and a batch delete that
\* does not reject, the returned deleted and failed lists are a partition of
\* the identifiers passed.
DeleteImagesPartition ==
  (Ended("deleteImages") /\ reply.settled = "resolved") =>
    /\ outcome.kind = "returned"
    /\ outcome.value.t = "summary"
    /\ LET deleted == Range(outcome.value.v.deleted)
           failed == Range(outcome.value.v.failed)
       IN /\ deleted \cap failed = {}
          /\ deleted \cup failed = Range(arg.v)

\* C4: a deleteImage or deleteImages whose remote call rejects, with an Error
\* or with anything else, ends by throwing or by returning a boolean or a
\* summary; it never ends with no result.
RemoteFailureSurfaced ==
  ((Ended("deleteImage") \/ Ended("deleteImages")) /\ reply.settled = "rejected") =>
    \/ outcome.kind = "threw"
    \/ outcome.kind = "returned" /\ outcome.value.t \in {"boolean", "summary"}

\* C5, as claimed: the identifier starts from the last non-empty segment of the
\* URL, also when the URL ends with '/'.
StartsFromLastNonEmptySegment ==
  debugLog # <<>> => debugLog[1] = BeforeQuery(LastNonEmptySegment(arg.v))

\* C5, as the code has it: the identifier starts from the text after the last
\* '/' (the whole URL when it has none), cut at the first '?'.  For a URL that
\* ends with '/' that text is empty and so is the identifier, whatever comes
\* before the trailing '/'; for every other URL it is the last non-empty
\* segment.
StartsFromLastSegment ==
  debugLog # <<>> =>
    /\ debugLog[1] = BeforeQuery(AfterLastSlash(arg.v))
    /\ EndsWithSlash(arg.v) => debugLog[1] = <<>> /\ debugLog[3] = <<>>
    /\ ~EndsWithSlash(arg.v) =>
         debugLog[1] = BeforeQuery(LastNonEmptySegment(arg.v))

\* C5, its case: a URL with a non-empty segment before its trailing '/'
StartsFromLastSegmentWitness ==
  /\ Ended("getFilenameFromImageUrl")
  /\ EndsWithSlash(arg.v)
  /\ BeforeQuery(LastNonEmptySegment(arg.v)) # <<>>
  /\ outcome = Returned(Str(<<>>))

\* C6: the tail cut at the first '?' is kept whole when it has no '.', yields
\* the piece before the dot when it has one '.', and yields all its pieces but
\* the last joined with '-' when it has two or more; photo.jpg?x=1 gives photo,
\* archive.tar.gz gives archive-tar and noext gives noext.
DotRule ==
  /\ debugLog # <<>> =>
       LET tail == debugLog[1]
           dots == Positions(tail, ".")
       IN /\ dots = {} => debugLog[2] = tail
          /\ Cardinality(dots) = 1 => debugLog[2] = SubSeq(tail, 1, Min(dots) - 1)
          /\ Cardinality(dots) >= 2 =>
               debugLog[2] = [i \in 1..(Max(dots) - 1) |->
                                IF tail[i] = "." THEN "-" ELSE tail[i]]
  /\ Ended("getFilenameFromImageUrl") =>
       /\ arg = Str(PhotoUrl) => outcome = Returned(Str(<<"p", "h", "o", "t", "o">>))
       /\ arg = Str(ArchiveUrl) =>
            outcome = Returned(Str(<<"a", "r", "c", "h", "i", "v", "e", "-", "t", "a", "r">>))
       /\ arg = Str(NoextUrl) => outcome = Returned(Str(<<"n", "o", "e", "x", "t">>))

\* C6, its case: a tail with two dots
DotRuleWitness ==
  /\ Ended("getFilenameFromImageUrl")
  /\ arg = Str(ArchiveUrl)
  /\ debugLog[2] = <<"a", "r", "c", "h", "i", "v", "e", "-", "t", "a", "r">>

\* the four conditions of acceptance
Acceptable ==
  /\ ~Blank(arg.v)
  /\ WellFormed(arg.v)
  /\ reply.settled = "resolved"
  /\ ImagePrefixed(reply.result.v.content_type)

\* C7: validateImageUrl returns true exactly when the url is not blank, has the
\* form http(s)://A.B without spaces, the probe succeeds and the content-type
\* of the response begins with image/; it returns false otherwise: for the
\* empty string, for a string of another form, for a probe that fails and for
\* a response whose content-type does not begin with image/.
ValidateDecides ==
  Ended("validateImageUrl") => outcome = (IF Acceptable THEN True ELSE False)

\* C7, the part that holds of the code: true is returned exactly under the four
\* conditions, and false is returned in each of the cases named, the last one
\* for a response that declares a content-type.
ValidateTrueExactlyWhen ==
  Ended("validateImageUrl") =>
    /\ outcome = True <=> Acceptable
    /\ arg.v = <<>> => outcome = False
    /\ ~WellFormed(arg.v) => outcome = False /\ calls = <<>>
    /\ (WellFormed(arg.v) /\ reply.settled = "rejected") => outcome = False
    /\ (reply.settled = "resolved"
          /\ reply.result.v.content_type.t = "string"
          /\ ~ImagePrefixed(reply.result.v.content_type)) => outcome = False

\* C7, a case of that part: a probed URL whose response is an image
ValidateTrueExactlyWhenWitness ==
  /\ Ended("validateImageUrl")
  /\ reply = Resolved(Response(Str(ImagePng)))
  /\ outcome = True

\* C8: deleteImages with no list, an empty list or an empty identifier in the
\* list, deleteImage with no publicId or an empty one, and uploadByUrl with an
\* imageUrl that is no string each throw, and no remote operation is invoked.
InputError ==
  \/ /\ op = "deleteImages"
     /\ \/ arg.t \in {"undefined", "null"}
        \/ arg.v = <<>>
        \/ <<>> \in Range(arg.v)
  \/ op = "deleteImage" /\ (arg.t \in {"undefined", "null"} \/ arg = Str(<<>>))
  \/ op = "uploadByUrl" /\ arg.t # "string"

InputErrorBeforeRemoteCall ==
  InputError =>
    /\ pc = "done"
    /\ outcome.kind = "threw" /\ outcome.value.t = "Error"
    /\ calls = <<>>
    /\ reply = NoReply

\* C8, its case: an empty identifier behind a non-empty one
InputErrorBeforeRemoteCallWitness ==
  /\ Ended("deleteImages")
  /\ arg = Arr(<< <<"a">>, <<>> >>)
  /\ outcome.kind = "threw"

\* C9: the identifier getFilenameFromImageUrl returns holds none of ? # % < >;
\* a<b>c.png gives abc.
NoForbiddenCharacter ==
  /\ debugLog # <<>> => Chars(debugLog[3]) \cap {"?", "#", "%", "<", ">"} = {}
  /\ Ended("getFilenameFromImageUrl") =>
       /\ outcome.kind = "returned"
       /\ Chars(outcome.value.v) \cap {"?", "#", "%", "<", ">"} = {}
       /\ arg = Str(AngleUrl) => outcome.value = Str(<<"a", "b", "c">>)

\* C9, its case: a name with forbidden characters
NoForbiddenCharacterWitness ==
  /\ Ended("getFilenameFromImageUrl")
  /\ arg = Str(AngleUrl)
  /\ outcome = Returned(Str(<<"a", "b", "c">>))

\* C10: the options given to the upload are the caller's but for public_id:
\* with a non-empty identifier, public_id is the identifier, also over a
\* public_id of the caller, and the other options are as passed; with an empty
\* identifier the options are the caller's as passed; the caller's own object
\* is never changed.
OnlyPublicIdFolded ==
  /\ heap = options
  /\ (op = "uploadByUrl" /\ Len(Uploads) = 1) =>
       LET forwarded == Uploads[1].options
           identifier == getFilenameFromImageUrl(arg.v)
       IN IF identifier # <<>>
          THEN /\ forwarded.t = "object"
               /\ forwarded.v.public_id = Str(identifier)
               /\ forwarded.v.folder =
                    (IF options.t = "object" THEN options.v.folder ELSE Undefined)
          ELSE forwarded = options

\* C10, its case: the caller passed a public_id and a folder
OnlyPublicIdFoldedWitness ==
  /\ op = "uploadByUrl" /\ pc = "upload"
  /\ options = Obj([public_id |-> Str(<<"m", "e">>), folder |-> Str(<<"f">>)])
  /\ Uploads[1].options =
       Obj([public_id |-> Str(<<"a">>), folder |-> Str(<<"f">>)])

====
